---- MODULE Spec2Model ----
(***************************************************************************)
(* bigflow.dataproc.PySparkJob.run: build and upload the egg and the       *)
(* pickled driver, create a temporary Dataproc cluster, submit a pyspark   *)
(* job, poll it to a terminal state, print its output log and delete the   *)
(* cluster.  Every remote call either returns or raises; the propagation   *)
(* of exceptions through the two `finally` blocks follows Python: an       *)
(* exception raised inside a `finally` block replaces the one that was     *)
(* propagating.                                                            *)
(*                                                                         *)
(* Spec is one run, with the job's fields, the values run() computes and   *)
(* the arguments of its remote calls.  FleetSpec is several runs of the    *)
(* same job at once, on one Dataproc region.                               *)
(*                                                                         *)
(* Python strings that the code formats or takes apart are sequences of    *)
(* one-character strings; dicts are sets of <<key, value>> pairs.          *)
(***************************************************************************)
EXTENDS Integers, Sequences, FiniteSets, TLC

\* Bound on the number of non-terminal job states one run observes.
MaxPolls == 3

\* Detail messages a remote job may report with state ERROR.
Details == {"boom", "oom"}

\* dataproc_v1.JobStatus.State values the watcher tells apart.
TerminalStates == {"DONE", "ERROR", "CANCELLED"}
NonTerminalStates == {"PENDING", "RUNNING"}
JobStates == TerminalStates \cup NonTerminalStates

\* time.sleep(5) between two polls.
PollInterval == 5

\* The message of the exception raised for a CANCELLED job.
CancelledMessage == "Job was CANCELLED"

VARIABLES
    pc,          \* the statement of run() that executes next
    setup_file,  \* PySparkJob.setup_file ("" is None)
    trace,       \* the external calls made so far, in order, with outcomes
    exc,         \* the exception that is propagating (kind "none": none)
    raised,      \* every exception raised so far, in order
    cluster,     \* the remote cluster named by the internal job id
    job,         \* "" or the job id returned by submit_job
    lastState,   \* the job state the watcher observed last ("" before)
    jobDetails,  \* job.status.details of the last observation
    watcher,     \* how _wait_for_job_to_finish was left ("" while not left)
    slept,       \* time units the watcher has slept
    desc,        \* the other fields of the PySparkJob object
    desc0,       \* the fields of the PySparkJob object when run() was called
    loc,         \* the local variables of run() and of the functions it calls
    remote,      \* what the remote services were asked: blobs, names, jobs
    runs,        \* FleetSpec: each run's position and internal job id
    clusters,    \* FleetSpec: the names of the clusters that exist
    fleetCalls,  \* FleetSpec: the cluster and blob names each run has passed
    IS_LOGGING_SET,  \* LogSpec: BigflowLogging.IS_LOGGING_SET
    root_handlers,   \* LogSpec: logging.getLogger(None).handlers
    excepthook,      \* LogSpec: sys.excepthook
    log_pc,          \* LogSpec: the statement of configure_logging that runs next
    log_loc,         \* LogSpec: the arguments and locals of configure_logging
    log_hist         \* LogSpec: how many calls, warnings, installs, failures

\* The variables of FleetSpec.
fleetVars == <<runs, clusters, fleetCalls>>

\* The variables of LogSpec.
logVars == <<IS_LOGGING_SET, root_handlers, excepthook, log_pc, log_loc, log_hist>>

\* The variables of one run that its job, its locals and its calls add.
dataVars == <<desc, desc0, loc, remote>>

vars == <<pc, setup_file, trace, exc, raised, cluster, job, lastState,
          jobDetails, watcher, slept, desc, desc0, loc, remote,
          runs, clusters, fleetCalls,
          IS_LOGGING_SET, root_handlers, excepthook, log_pc, log_loc, log_hist>>

NoExc == [kind |-> "none", msg |-> ""]

Exc(kind, msg) == [kind |-> kind, msg |-> msg]

Call(op, out) == [op |-> op, out |-> out]

\* Outcomes of a remote call other than get_job.
Outcomes == {"ok", "raise"}

----------------------------------------------------------------------------
(* Strings *)

UpperLetters ==
    <<"A", "B", "C", "D", "E", "F", "G", "H", "I", "J", "K", "L", "M",
      "N", "O", "P", "Q", "R", "S", "T", "U", "V", "W", "X", "Y", "Z">>

LowerLetters ==
    <<"a", "b", "c", "d", "e", "f", "g", "h", "i", "j", "k", "l", "m",
      "n", "o", "p", "q", "r", "s", "t", "u", "v", "w", "x", "y", "z">>

DigitChars == <<"0", "1", "2", "3", "4", "5", "6", "7", "8", "9">>

\* The elements of a sequence.
Range(s) == {s[i] : i \in 1..Len(s)}

\* str.lower() of one character.
LowerChar(c) ==
    IF \E i \in 1..Len(UpperLetters) : UpperLetters[i] = c
    THEN LowerLetters[CHOOSE i \in 1..Len(UpperLetters) : UpperLetters[i] = c]
    ELSE c

\* An id taken as it is, without .lower().
Lower_Identity(s) == s

\* str.lower()
Lower(s) == [i \in 1..Len(s) |-> LowerChar(s[i])]

\* 10 ** n
Pow10(n) == IF n = 0 THEN 1
            ELSE IF n = 1 THEN 10
            ELSE IF n = 2 THEN 100
            ELSE 1000

\* A number as `w` decimal digits with leading zeros (%Y, %m, %d, %H, %M, %S).
Pad(n, w) == [i \in 1..w |-> DigitChars[((n \div Pow10(w - i)) % 10) + 1]]

\* Python's `a or b` on strings.
Or(a, b) == IF a # << >> THEN a ELSE b

Dash == <<"-">>

Slash == <<"/">>

NoneStr == <<"n", "o", "n", "e">>

\* datetime.strftime("%Y-%m-%d-%H%M%S")
Strftime(t) ==
    Pad(t.year, 4) \o Dash \o Pad(t.month, 2) \o Dash \o Pad(t.day, 2) \o Dash
        \o Pad(t.hour, 2) \o Pad(t.minute, 2) \o Pad(t.second, 2)

\* _generate_internal_jobid: the f-string of line 97.
InternalJobid(id, env, now, suffix) ==
    Lower(id) \o Dash \o Or(env, NoneStr) \o Dash \o Strftime(now) \o Dash
        \o suffix

\* self.env = env or bigflow.configuration.current_env() or 'none'
EnvOf(envArg, currentEnv) == Or(Or(envArg, currentEnv), NoneStr)

\* The position of the last "/" of a path, 0 if it has none.
LastSlash(p) ==
    LET at == {i \in 1..Len(p) : p[i] = "/"}
    IN  IF at = {} THEN 0 ELSE CHOOSE i \in at : \A j \in at : j <= i

\* pathlib.Path(p).name
BaseName(p) == SubSeq(p, LastSlash(p) + 1, Len(p))

\* str(cwd / filename)
JoinPath(cwd, filename) ==
    IF filename # << >> /\ filename[1] = "/" THEN filename
    ELSE cwd \o Slash \o filename

\* '{}/{}'.format(prefix, name) and f"{prefix}/{name}"
UnderPrefix(prefix, name) == prefix \o Slash \o name

\* f"gs://{bucket_id}/{path}"
GsUri(bucket_id, path) ==
    <<"g", "s", ":", "/", "/">> \o bucket_id \o Slash \o path

\* `s` starts with `prefix` followed by "/".
HasPrefix(s, prefix) ==
    /\ Len(s) > Len(prefix)
    /\ SubSeq(s, 1, Len(prefix)) = prefix
    /\ s[Len(prefix) + 1] = "/"

----------------------------------------------------------------------------
(* The inputs of a run *)

\* PySparkJob(id=...)
JobIds == {<<"d", "e", "m", "o">>, <<"E", "t", "L", "2">>}

\* PySparkJob(env=...): None or a name.
EnvArgs == {<< >>, <<"d", "e", "v">>}

\* bigflow.configuration.current_env(): None or a name.
CurrentEnvs == {<< >>, <<"p", "r", "o", "d">>}

\* PySparkJob(driver_arguments=...): None or a dict.
DriverArguments == {{}, {<<"table", "t1">>, <<"runtime", "old">>}}

\* run(runtime)
Runtimes == {"2024-01-01 00:00:00"}

\* datetime.datetime.now()
Clocks ==
    {[year |-> 2024, month |-> 1, day |-> 1,
      hour |-> 12, minute |-> 0, second |-> 0],
     [year |-> 2026, month |-> 11, day |-> 9,
      hour |-> 3, minute |-> 4, second |-> 59]}

\* The characters random.choices draws from.
SuffixAlphabet == Range(LowerLetters) \cup Range(DigitChars)

\* The length of the random suffix.
SuffixLen == 10

\* random.choices(string.ascii_lowercase + string.digits, k=10)
Suffixes ==
    {<<"a", "b", "c", "1", "2", "3", "4", "5", "6", "7">>,
     <<"z", "0", "z", "0", "z", "0", "z", "0", "z", "9">>}

\* The directory of the setup file: pathlib.Path(setup_file).parent.resolve()
ProjectDir == <<"/", "p">>

DriverFilename == <<"d", "r", "i", "v", "e", "r", ".", "p", "y">>

\* The fields of a PySparkJob after __init__, but for setup_file.
Descriptor(id, envArg, currentEnv, args) ==
    [id |-> id,
     driver_filename |-> DriverFilename,
     driver_callable |-> "etl.main",
     driver_arguments |-> args,
     bucket_id |-> <<"b", "k">>,
     gcp_project_id |-> "proj",
     gcp_region |-> "europe-west1",
     env |-> EnvOf(envArg, currentEnv),
     jar_file_uris |-> <<"gs://spark-lib/bigquery/spark-bigquery-latest_2.12.jar">>,
     worker_machine_type |-> "n1-standard-1",
     worker_num_instances |-> 2,
     pip_packages |-> <<"bigflow[dataproc,log,bigquery]">>]

Descriptors ==
    {Descriptor(id, envArg, currentEnv, args) :
        id \in JobIds, envArg \in EnvArgs, currentEnv \in CurrentEnvs,
        args \in DriverArguments}

\* No driver wrapper yet.
NoDriver == [callable |-> "", args |-> << >>, kwargs |-> {}, envs |-> {}]

\* No build output yet.
NoBuild == [exit |-> 0, output |-> << >>]

\* No driver script yet.
NoScript == [callable |-> "", data |-> << >>]

\* The locals of run() before its first statement.
Locals(runtime) ==
    [runtime |-> runtime,
     now |-> [year |-> 0, month |-> 0, day |-> 0,
              hour |-> 0, minute |-> 0, second |-> 0],
     job_random_suffix |-> << >>,
     job_internal_id |-> << >>,
     driver |-> NoDriver,
     build |-> NoBuild,
     egg_local_path |-> << >>,
     egg_path |-> << >>,
     driver_path |-> << >>,
     script |-> NoScript,
     cluster_name |-> << >>]

\* Nothing asked of the remote services yet.
NothingAsked ==
    [eggs |-> {}, drivers |-> {}, created |-> << >>, jobs |-> << >>,
     deleted |-> << >>]

----------------------------------------------------------------------------
(* The egg build *)

\* A line of the output of `python setup.py bdist_egg`: its first word,
\* whether a quoted name follows it, and that name.
Line(word, quoted, arg) == [word |-> word, quoted |-> quoted, arg |-> arg]

EggFile == <<"d", "/", "p", ".", "e", "g", "g">>

\* Outputs of the build: with the line "creating 'd/p.egg' and adding ...",
\* and without it.
BuildOutputs ==
    {<<Line("running", FALSE, << >>),
       Line("creating", FALSE, <<"b">>),
       Line("creating", TRUE, EggFile),
       Line("removing", TRUE, <<"b">>)>>,
     <<Line("running", FALSE, << >>),
       Line("creating", FALSE, <<"b">>),
       Line("error", FALSE, << >>)>>}

\* Exit codes of the build process.
ExitCodes == {0, 1}

\* bigflow.commons.run_process raises when the process fails.
RunProcessRaises(exit) == exit # 0

\* A search for "creating" alone, quoted name or not.
SearchCreating_AnyCreating(output) ==
    LET at == {i \in 1..Len(output) : output[i].word = "creating"}
    IN  IF at = {} THEN 0 ELSE CHOOSE i \in at : \A j \in at : i <= j

\* re.search('creating \'([^\']*)\'', output): the first line that matches,
\* 0 (None) if none does.
SearchCreating(output) ==
    LET at == {i \in 1..Len(output) :
                    output[i].word = "creating" /\ output[i].quoted}
    IN  IF at = {} THEN 0 ELSE CHOOSE i \in at : \A j \in at : i <= j

----------------------------------------------------------------------------
(* The driver script: pickle, base85, and the wrapper's call *)

\* dict.update(new) and d[k] = v on a dict kept as a set of pairs.
DictUpdate(d, new) ==
    {p \in d : \A q \in new : q[1] # p[1]} \cup new

DictSet(d, k, v) == DictUpdate(d, {<<k, v>>})

\* The alphabet of base64.b85encode, in the order of its digits 0..84 (the
\* backquote is written out, as a string cannot hold it).
B85Alphabet ==
    DigitChars \o UpperLetters \o LowerLetters \o
    <<"!", "#", "$", "%", "&", "(", ")", "*", "+", "-", ";", "<", "=",
      ">", "?", "@", "^", "_", "backquote", "{", "|", "}", "~">>

\* n zero bytes.
Zeros(n) == [i \in 1..n |-> 0]

\* A big-endian four-byte word divided by 85: quotient word and remainder.
DivMod85(w) ==
    LET c1 == w[1]
        c2 == (c1 % 85) * 256 + w[2]
        c3 == (c2 % 85) * 256 + w[3]
        c4 == (c3 % 85) * 256 + w[4]
    IN  [q |-> <<c1 \div 85, c2 \div 85, c3 \div 85, c4 \div 85>>,
         r |-> c4 % 85]

\* The five base-85 digits of a four-byte word, most significant first.
Word85(w) ==
    LET s1 == DivMod85(w)
        s2 == DivMod85(s1.q)
        s3 == DivMod85(s2.q)
        s4 == DivMod85(s3.q)
        s5 == DivMod85(s4.q)
    IN  <<s5.r, s4.r, s3.r, s2.r, s1.r>>

RECURSIVE EncodeWords(_)
EncodeWords(padded) ==
    IF padded = << >> THEN << >>
    ELSE LET ds == Word85(SubSeq(padded, 1, 4))
         IN  [i \in 1..5 |-> B85Alphabet[ds[i] + 1]]
                \o EncodeWords(SubSeq(padded, 5, Len(padded)))

\* An encoder that keeps the characters of the padding (pad=True).
B85Encode_Padded(bytes) ==
    EncodeWords(bytes \o Zeros((4 - (Len(bytes) % 4)) % 4))

\* base64.b85encode(bytes): pad with zero bytes to whole words, five digits
\* a word, then drop as many characters as bytes were added.
B85Encode(bytes) ==
    LET padding == (4 - (Len(bytes) % 4)) % 4
        chars == EncodeWords(bytes \o Zeros(padding))
    IN  SubSeq(chars, 1, Len(chars) - padding)

\* The digit of a base85 character, -1 if it is not in the alphabet.
B85Digit(c) ==
    IF \E i \in 1..Len(B85Alphabet) : B85Alphabet[i] = c
    THEN (CHOOSE i \in 1..Len(B85Alphabet) : B85Alphabet[i] = c) - 1
    ELSE -1

\* word * 85 + d on a big-endian four-byte word; `over` is what does not fit.
MulAdd85(w, d) ==
    LET t4 == w[4] * 85 + d
        t3 == w[3] * 85 + (t4 \div 256)
        t2 == w[2] * 85 + (t3 \div 256)
        t1 == w[1] * 85 + (t2 \div 256)
    IN  [w |-> <<t1 % 256, t2 % 256, t3 % 256, t4 % 256>>,
         over |-> t1 \div 256]

\* The four bytes of five base-85 digits; <<256>> if they overflow a word.
Chunk85(ds) ==
    LET s1 == MulAdd85(<<0, 0, 0, 0>>, ds[1])
        s2 == MulAdd85(s1.w, ds[2])
        s3 == MulAdd85(s2.w, ds[3])
        s4 == MulAdd85(s3.w, ds[4])
        s5 == MulAdd85(s4.w, ds[5])
    IN  IF s1.over + s2.over + s3.over + s4.over + s5.over > 0
        THEN <<256>> ELSE s5.w

RECURSIVE DecodeChunks(_)
DecodeChunks(digits) ==
    IF digits = << >> THEN << >>
    ELSE Chunk85(SubSeq(digits, 1, 5))
            \o DecodeChunks(SubSeq(digits, 6, Len(digits)))

\* What stands for a value that could not be decoded.
BadBytes == <<256>>

\* base64.b85decode(chars): pad with "~" to whole chunks, four bytes a
\* chunk, then drop as many bytes as characters were added.
B85Decode(chars) ==
    LET padding == (5 - (Len(chars) % 5)) % 5
        digits == [i \in 1..Len(chars) |-> B85Digit(chars[i])]
                    \o [i \in 1..padding |-> 84]
        bytes == DecodeChunks(digits)
    IN  IF (\E i \in 1..Len(digits) : digits[i] < 0) \/ 256 \in Range(bytes)
        THEN BadBytes
        ELSE SubSeq(bytes, 1, Len(bytes) - padding)

\* The names pickle writes, by the byte that stands for each.
CallableNames == <<"etl.main">>
KwargKeys == <<"runtime", "table">>
KwargValues == <<"old", "t1", "2024-01-01 00:00:00">>
EnvKeys == <<"env">>
EnvValues == <<NoneStr, <<"d", "e", "v">>, <<"p", "r", "o", "d">>>>

\* The position of x in a table.
IndexIn(table, x) == CHOOSE i \in 1..Len(table) : table[i] = x

\* The byte that stands for the i-th name of a table, and back.
NameByte(i) == (i * 89 + 128) % 256
ByteName(b) == CHOOSE i \in 1..16 : NameByte(i) = b

\* The pairs of a dict as bytes, in the order of the key table.
RECURSIVE PickleDict(_, _, _, _)
PickleDict(d, keys, values, k) ==
    IF k > Len(keys) THEN << >>
    ELSE (IF \E p \in d : p[1] = keys[k]
          THEN LET p == CHOOSE p \in d : p[1] = keys[k]
               IN  <<NameByte(k), NameByte(IndexIn(values, p[2]))>>
          ELSE << >>)
         \o PickleDict(d, keys, values, k + 1)

\* Protocol and stop opcodes of a pickle.
PickleProto == 128
PickleStop == 46

\* pickle.dumps(wrapper): the wrapper's fields one after the other.
Pickle(w) ==
    <<PickleProto, NameByte(IndexIn(CallableNames, w.callable))>>
        \o <<Cardinality(w.kwargs)>>
        \o PickleDict(w.kwargs, KwargKeys, KwargValues, 1)
        \o <<Cardinality(w.envs)>>
        \o PickleDict(w.envs, EnvKeys, EnvValues, 1)
        \o <<PickleStop>>

\* The dict of n pairs that starts at bytes[at].
UnpickleDict(bytes, at, n, keys, values) ==
    {<<keys[ByteName(bytes[at + 2 * i])],
       values[ByteName(bytes[at + 2 * i + 1])]>> : i \in 0..(n - 1)}

\* What stands for a wrapper that could not be unpickled.
BadWrapper == [callable |-> "?", args |-> << >>, kwargs |-> {}, envs |-> {}]

\* pickle.loads(bytes)
Unpickle(bytes) ==
    IF bytes = BadBytes \/ Len(bytes) < 5 \/ bytes[1] # PickleProto
    THEN BadWrapper
    ELSE LET nk == bytes[3]
             ne == bytes[4 + 2 * nk]
         IN  IF bytes[5 + 2 * nk + 2 * ne] # PickleStop THEN BadWrapper
             ELSE [callable |-> CallableNames[ByteName(bytes[2])],
                   args |-> << >>,
                   kwargs |-> UnpickleDict(bytes, 4, nk, KwargKeys, KwargValues),
                   envs |-> UnpickleDict(bytes, 5 + 2 * nk, ne, EnvKeys, EnvValues)]

\* repr() of a bytes object of printable characters: b'...'
ReprBytes(chars) == <<"b", "'">> \o chars \o <<"'">>

\* The value of a bytes literal b'...': the characters up to the closing
\* quote.
EvalBytesLiteral(lit) ==
    LET quotes == {i \in 3..Len(lit) : lit[i] = "'"}
        close == CHOOSE i \in quotes : \A j \in quotes : i <= j
    IN  SubSeq(lit, 3, close - 1)

\* generate_driver_script(callable): the script, as the callable its comment
\* names and the literal assigned to `data`.
DriverScript(w) ==
    [callable |-> w.callable, data |-> ReprBytes(B85Encode(Pickle(w)))]

\* _PySparkDriverWrapper.__call__: the environment after the update and the
\* call made in it.
WrapperCall(w, environ) ==
    [environ |-> DictUpdate(environ, w.envs),
     callable |-> w.callable,
     args |-> w.args,
     kwargs |-> w.kwargs]

\* The last two statements of the script: call = pickle.loads(
\* base64.b85decode(data)); call()
RunScript(script, environ) ==
    WrapperCall(Unpickle(B85Decode(EvalBytesLiteral(script.data))), environ)

\* A wrapper that calls first and updates the environment afterwards.
WrapperEvents_CallFirst(w, environ) ==
    <<[op |-> "callable", callable |-> w.callable, args |-> w.args,
       kwargs |-> w.kwargs, environ |-> environ],
      [op |-> "os.environ.update", callable |-> "", args |-> << >>,
       kwargs |-> {}, environ |-> DictUpdate(environ, w.envs)]>>

\* _PySparkDriverWrapper.__call__, statement by statement: what is called,
\* with which arguments, and os.environ after the statement started.
WrapperEvents(w, environ) ==
    <<[op |-> "os.environ.update", callable |-> "", args |-> << >>,
       kwargs |-> {}, environ |-> DictUpdate(environ, w.envs)],
      [op |-> "callable", callable |-> w.callable, args |-> w.args,
       kwargs |-> w.kwargs, environ |-> DictUpdate(environ, w.envs)]>>

\* The last two statements of the script, statement by statement: call()
\* passes nothing, __call__ takes nothing but self.
ScriptEvents(script, environ) ==
    WrapperEvents(Unpickle(B85Decode(EvalBytesLiteral(script.data))), environ)

\* os.environ of the driver process before the script runs.
Environs == {{}, {<<"env", <<"p", "r", "o", "d">>>>, <<"HOME", <<"/">>>>}}

----------------------------------------------------------------------------
(* bigflow.log: the process-wide logging configuration *)

\* The most calls of configure_logging in one process.
MaxLogCalls == 3

\* configure_logging(project_id, logger_name, workflow_id=None)
ProjectIds == {"proj"}
LoggerNames == {"etl", "etl2"}
WorkflowIds == {"", "wf"}

\* The handler logging.basicConfig adds to a root logger that has none.
StreamHandler == [kind |-> "StreamHandler", log_name |-> << >>, id |-> ""]

\* GCPLoggerHandler.__init__: the handler and the labels of its entries.
GCPLoggerHandler(project_id, logger_name, workflow_id) ==
    [kind |-> "GCPLoggerHandler",
     log_name |-> <<"projects", project_id, "logs", logger_name>>,
     id |-> IF workflow_id # "" THEN workflow_id ELSE project_id]

\* No call of configure_logging is running.
NoLogCall ==
    [project_id |-> "", logger_name |-> "", workflow_id |-> "",
     gcp_logger_handler |-> StreamHandler]

\* A guard that never finds logging configured.
AlreadyConfigured_Never(flag) == FALSE

\* if BigflowLogging.IS_LOGGING_SET:
AlreadyConfigured(flag) == flag

\* The process before any call of configure_logging.
LogIdle ==
    /\ IS_LOGGING_SET = FALSE
    /\ root_handlers = << >>
    /\ excepthook = "sys.__excepthook__"
    /\ log_pc = "idle"
    /\ log_loc = NoLogCall
    /\ log_hist = [calls |-> 0, warnings |-> 0, installs |-> 0, failures |-> 0]

----------------------------------------------------------------------------
(* Python control flow *)

\* An exception `new` raised in a `finally` block while `pending` propagates:
\* the new one leaves the block (the pending one is only its __context__).
RaiseInFinally(pending, new) == new

\* The scope without its `finally`: leaving the body leaves run().
ClusterScopeExit_NoFinally == "done"

\* Where control goes when the body of `with self._with_temp_cluster(...)`
\* is left, by return or by raise: the generator's `finally`.
ClusterScopeExit == "delete_cluster"

\* run() without its `finally`: leaving the watcher goes to the scope's exit.
WaitExit_SkipLog == "delete_cluster"

\* Where control goes when _wait_for_job_to_finish is left, by return or by
\* raise: the `finally` of run().
WaitExit == "log_get_job"

\* Where a failure before the cluster scope leaves run().
Abort == "done"

\* A run that tries the upload again after a failure.
UploadFailed_Retry(at) == at

\* Where run() goes when the upload at `at` raises: nothing catches it.
UploadFailed(at) == Abort

\* A run that asks Dataproc to cancel the job when a poll raises.
OnPollFailure_CancelJob == <<[op |-> "cancel_job", out |-> "ok"]>>

\* The calls run() makes on its own when a status poll raises, before the
\* `finally` blocks run: there is no `except` around the watcher.
OnPollFailure == << >>

\* A watcher that backs off: each sleep is one interval longer than the last.
SleepFor_Backoff(n) == PollInterval * (n + 1)

\* The argument of time.sleep in the watcher's pass after n sleeps.
SleepFor(n) == PollInterval

\* A watcher that gives up after its first sleep and leaves run().
AfterSleep_GiveUp == "done"

\* Where control goes after time.sleep(5): the next pass of `while True`.
AfterSleep == "get_job"

\* A watcher that raises the fixed message for ERROR as well.
WatcherStep_ErrorAsCancelled(state) ==
    IF state = "DONE" THEN "return"
    ELSE IF state = "ERROR" THEN "raise_cancelled"
    ELSE IF state = "CANCELLED" THEN "raise_cancelled"
    ELSE "sleep"

\* A watcher that takes every state but RUNNING for the end of the job.
WatcherStep_OnlyRunningSleeps(state) ==
    IF state = "ERROR" THEN "raise_details"
    ELSE IF state = "CANCELLED" THEN "raise_cancelled"
    ELSE IF state = "RUNNING" THEN "sleep"
    ELSE "return"

\* What the watcher does with an observed job state.
WatcherStep(state) ==
    IF state = "DONE" THEN "return"
    ELSE IF state = "ERROR" THEN "raise_details"
    ELSE IF state = "CANCELLED" THEN "raise_cancelled"
    ELSE "sleep"

----------------------------------------------------------------------------
(* What run() computes *)

\* _prepare_driver_callable that adds `runtime` to self.driver_arguments
\* itself instead of to a copy.
ArgumentsAfterPrepare_NoCopy(driver_arguments, runtime) ==
    DictSet(driver_arguments, "runtime", runtime)

\* self.driver_arguments after _prepare_driver_callable: dict(...) copies,
\* so the job's own dict is as before.
ArgumentsAfterPrepare(driver_arguments, runtime) == driver_arguments

\* _prepare_driver_callable: the wrapper it returns.
PrepareDriver(d, runtime) ==
    [callable |-> d.driver_callable,
     args |-> << >>,
     kwargs |-> DictSet(d.driver_arguments, "runtime", runtime),
     envs |-> IF d.env # << >> THEN {<<"env", d.env>>} ELSE {}]

\* _prepare_pyspark_properties
PysparkProperties(d) ==
    {<<"spark.app.name", d.id>>}
        \cup (IF d.env # << >>
              THEN {<<"spark.workerEnv.bf_env", d.env>>,
                    <<"spark.executorEnv.bf_env", d.env>>}
              ELSE {})

\* A scope that names its cluster after the job alone.
ScopeClusterName_JobName(d, job_internal_id) ==
    Lower(d.id) \o Dash \o d.env

\* The cluster name run() passes to _with_temp_cluster.
ScopeClusterName(d, job_internal_id) == job_internal_id

\* A prefix that leaves the run out.
UploadPrefix_Shared(d, job_internal_id) == Lower(d.id)

\* The prefix run() puts before the names of the blobs it uploads.
UploadPrefix(d, job_internal_id) == job_internal_id

\* The cluster _create_cluster asks for.
ClusterData(d, cluster_name) ==
    [cluster_name |-> cluster_name,
     requirements |-> d.pip_packages,
     worker_num_instances |-> d.worker_num_instances,
     worker_machine_type |-> d.worker_machine_type]

\* A job that takes the egg for its main file.
JobSpec_EggAsMain(cluster_name, bucket_id, driver_path, egg_path, jar_file_uris, properties) ==
    [cluster_name |-> cluster_name,
     main_python_file_uri |-> GsUri(bucket_id, egg_path),
     jar_file_uris |-> jar_file_uris,
     python_file_uris |-> <<GsUri(bucket_id, egg_path)>>,
     properties |-> properties]

\* _submit_single_pyspark_job: the jobspec.
JobSpec(cluster_name, bucket_id, driver_path, egg_path, jar_file_uris, properties) ==
    [cluster_name |-> cluster_name,
     main_python_file_uri |-> GsUri(bucket_id, driver_path),
     jar_file_uris |-> jar_file_uris,
     python_file_uris |-> <<GsUri(bucket_id, egg_path)>>,
     properties |-> properties]

----------------------------------------------------------------------------
(* Several runs at once *)

\* The runs of FleetSpec.
Runs == {1, 2}

\* No run of FleetSpec has started.
FleetIdle ==
    /\ runs = [r \in Runs |-> [pc |-> "idle", id |-> << >>]]
    /\ clusters = {}
    /\ fleetCalls = {}

----------------------------------------------------------------------------
(* One run *)

Init ==
    /\ pc = "ensure_setup_file"
    /\ setup_file \in {"", "setup.py"}
    /\ trace = << >>
    /\ exc = NoExc
    /\ raised = << >>
    /\ cluster = "absent"
    /\ job = ""
    /\ lastState = ""
    /\ jobDetails = ""
    /\ watcher = ""
    /\ slept = 0
    /\ desc \in Descriptors
    /\ desc0 = [desc |-> desc, setup_file |-> setup_file]
    /\ \E runtime \in Runtimes : loc = Locals(runtime)
    /\ remote = NothingAsked
    /\ FleetIdle
    /\ LogIdle

\* A step of run() before the cluster scope that keeps nothing: the call
\* `op` returns and run() goes on to `next`, or raises `kind` and run() is
\* left.
PrepStep(at, op, kind, next) ==
    /\ pc = at
    /\ \E out \in Outcomes :
        /\ trace' = Append(trace, Call(op, out))
        /\ IF out = "ok"
           THEN /\ pc' = next
                /\ UNCHANGED <<exc, raised>>
           ELSE /\ pc' = Abort
                /\ exc' = Exc(kind, op)
                /\ raised' = Append(raised, Exc(kind, op))
    /\ UNCHANGED <<setup_file, cluster, job, lastState, jobDetails, watcher, slept>>
    /\ UNCHANGED dataVars
    /\ UNCHANGED fleetVars
    /\ UNCHANGED logVars

\* self._ensure_has_setup_file()
EnsureHasSetupFile ==
    /\ pc = "ensure_setup_file"
    /\ setup_file' = IF setup_file # "" THEN setup_file ELSE "found_setup.py"
    /\ pc' = "generate_jobid"
    /\ UNCHANGED <<trace, exc, raised, cluster, job, lastState, jobDetails,
                   watcher, slept>>
    /\ UNCHANGED dataVars
    /\ UNCHANGED fleetVars
    /\ UNCHANGED logVars

\* job_internal_id = self._generate_internal_jobid(runtime)
GenerateInternalJobid ==
    /\ pc = "generate_jobid"
    /\ \E now \in Clocks, suffix \in Suffixes :
        loc' = [loc EXCEPT
                    !.now = now,
                    !.job_random_suffix = suffix,
                    !.job_internal_id = InternalJobid(desc.id, desc.env, now, suffix)]
    /\ pc' = "clients"
    /\ UNCHANGED <<setup_file, trace, exc, raised, cluster, job, lastState,
                   jobDetails, watcher, slept, desc, desc0, remote>>
    /\ UNCHANGED fleetVars
    /\ UNCHANGED logVars

\* storage.Client(...) and dataproc_v1.JobControllerClient(...)
Clients == PrepStep("clients", "clients", "ClientFailure", "prepare_driver")

\* driver = self._prepare_driver_callable(runtime)
PrepareDriverCallable ==
    /\ pc = "prepare_driver"
    /\ loc' = [loc EXCEPT !.driver = PrepareDriver(desc, loc.runtime)]
    /\ desc' = [desc EXCEPT !.driver_arguments =
                    ArgumentsAfterPrepare(desc.driver_arguments, loc.runtime)]
    /\ pc' = "get_bucket"
    /\ UNCHANGED <<setup_file, trace, exc, raised, cluster, job, lastState,
                   jobDetails, watcher, slept, desc0, remote>>
    /\ UNCHANGED fleetVars
    /\ UNCHANGED logVars

\* bucket = storage_client.get_bucket(self.bucket_id)
GetBucket == PrepStep("get_bucket", "get_bucket", "StorageFailure", "build_egg")

\* egg_local_path = _build_project_egg(self.setup_file)
BuildProjectEgg ==
    /\ pc = "build_egg"
    /\ \E exit \in ExitCodes, output \in BuildOutputs :
        LET m == SearchCreating(output)
            ok == ~RunProcessRaises(exit) /\ m # 0
        IN  /\ trace' = Append(trace, Call("build_egg", IF ok THEN "ok" ELSE "raise"))
            /\ loc' = [loc EXCEPT
                        !.build = [exit |-> exit, output |-> output],
                        !.egg_local_path =
                            IF ok THEN JoinPath(ProjectDir, output[m].arg) ELSE @]
            /\ IF ok
               THEN /\ pc' = "upload_egg"
                    /\ UNCHANGED <<exc, raised>>
               ELSE /\ pc' = Abort
                    /\ exc' = Exc("ArtifactBuildFailure",
                                  IF RunProcessRaises(exit) THEN "run_process" ELSE "group")
                    /\ raised' = Append(raised, exc')
    /\ UNCHANGED <<setup_file, cluster, job, lastState, jobDetails, watcher,
                   slept, desc, desc0, remote>>
    /\ UNCHANGED fleetVars
    /\ UNCHANGED logVars

\* egg_path = _upload_egg(egg_local_path, bucket, job_internal_id)
UploadEgg ==
    /\ pc = "upload_egg"
    /\ LET egg_path == UnderPrefix(UploadPrefix(desc, loc.job_internal_id),
                                   BaseName(loc.egg_local_path))
       IN  \/ /\ trace' = Append(trace, Call("upload_egg", "ok"))
              /\ remote' = [remote EXCEPT !.eggs = @ \cup
                                {[bucket |-> desc.bucket_id, path |-> egg_path,
                                  file |-> loc.egg_local_path]}]
              /\ loc' = [loc EXCEPT !.egg_path = egg_path]
              /\ pc' = "pickle"
              /\ UNCHANGED <<exc, raised>>
           \/ /\ trace' = Append(trace, Call("upload_egg", "raise"))
              /\ pc' = UploadFailed("upload_egg")
              /\ exc' = Exc("UploadFailure", "upload_egg")
              /\ raised' = Append(raised, exc')
              /\ UNCHANGED <<loc, remote>>
    /\ UNCHANGED <<setup_file, cluster, job, lastState, jobDetails, watcher,
                   slept, desc, desc0>>
    /\ UNCHANGED fleetVars
    /\ UNCHANGED logVars

\* driver_path = f"{job_internal_id}/{self.driver_filename}", then
\* generate_and_upload_driver: script = generate_driver_script(callable)
GenerateDriverScript ==
    /\ pc = "pickle"
    /\ LET driver_path == UnderPrefix(UploadPrefix(desc, loc.job_internal_id),
                                      desc.driver_filename)
       IN  \/ /\ trace' = Append(trace, Call("pickle", "ok"))
              /\ loc' = [loc EXCEPT !.driver_path = driver_path,
                                    !.script = DriverScript(loc.driver)]
              /\ pc' = "upload_driver"
              /\ UNCHANGED <<exc, raised>>
           \/ /\ trace' = Append(trace, Call("pickle", "raise"))
              /\ loc' = [loc EXCEPT !.driver_path = driver_path]
              /\ pc' = Abort
              /\ exc' = Exc("PackagingFailure", "pickle")
              /\ raised' = Append(raised, exc')
    /\ UNCHANGED <<setup_file, cluster, job, lastState, jobDetails, watcher,
                   slept, desc, desc0, remote>>
    /\ UNCHANGED fleetVars
    /\ UNCHANGED logVars

\* generate_and_upload_driver: driver_blob.upload_from_string(...)
UploadDriver ==
    /\ pc = "upload_driver"
    /\ \/ /\ trace' = Append(trace, Call("upload_driver", "ok"))
          /\ remote' = [remote EXCEPT !.drivers = @ \cup
                            {[bucket |-> desc.bucket_id, path |-> loc.driver_path,
                              script |-> loc.script]}]
          /\ pc' = "cluster_client"
          /\ UNCHANGED <<exc, raised>>
       \/ /\ trace' = Append(trace, Call("upload_driver", "raise"))
          /\ pc' = UploadFailed("upload_driver")
          /\ exc' = Exc("UploadFailure", "upload_driver")
          /\ raised' = Append(raised, exc')
          /\ UNCHANGED remote
    /\ UNCHANGED <<setup_file, cluster, job, lastState, jobDetails, watcher,
                   slept, desc, desc0, loc>>
    /\ UNCHANGED fleetVars
    /\ UNCHANGED logVars

\* with self._with_temp_cluster(job_internal_id): the generator starts with
\* dataproc_v1.ClusterControllerClient(...), before `try`
ClusterClient ==
    /\ pc = "cluster_client"
    /\ loc' = [loc EXCEPT !.cluster_name = ScopeClusterName(desc, loc.job_internal_id)]
    /\ \E out \in Outcomes :
        /\ trace' = Append(trace, Call("cluster_client", out))
        /\ IF out = "ok"
           THEN /\ pc' = "create_cluster"
                /\ UNCHANGED <<exc, raised>>
           ELSE /\ pc' = Abort
                /\ exc' = Exc("ClientFailure", "cluster_client")
                /\ raised' = Append(raised, exc')
    /\ UNCHANGED <<setup_file, cluster, job, lastState, jobDetails, watcher,
                   slept, desc, desc0, remote>>
    /\ UNCHANGED fleetVars
    /\ UNCHANGED logVars

\* _create_cluster: dataproc_cluster_client.create_cluster(...).  A call that
\* raises may or may not have left a partial cluster behind.
CreateCluster ==
    /\ pc = "create_cluster"
    /\ remote' = [remote EXCEPT !.created =
                        Append(@, ClusterData(desc, loc.cluster_name))]
    /\ \/ /\ trace' = Append(trace, Call("create_cluster", "ok"))
          /\ cluster' = "creating"
          /\ pc' = "cluster_result"
          /\ UNCHANGED <<exc, raised>>
       \/ /\ trace' = Append(trace, Call("create_cluster", "raise"))
          /\ cluster' \in {"absent", "partial"}
          /\ pc' = ClusterScopeExit
          /\ exc' = Exc("ClusterProvisioningFailure", "create_cluster")
          /\ raised' = Append(raised, exc')
    /\ UNCHANGED <<setup_file, job, lastState, jobDetails, watcher, slept,
                   desc, desc0, loc>>
    /\ UNCHANGED fleetVars
    /\ UNCHANGED logVars

\* _create_cluster: cluster_future.result(), then `yield cluster_name`
ClusterResult ==
    /\ pc = "cluster_result"
    /\ \/ /\ trace' = Append(trace, Call("cluster_result", "ok"))
          /\ cluster' = "ready"
          /\ pc' = "submit_job"
          /\ UNCHANGED <<exc, raised>>
       \/ /\ trace' = Append(trace, Call("cluster_result", "raise"))
          /\ cluster' = "partial"
          /\ pc' = ClusterScopeExit
          /\ exc' = Exc("ClusterProvisioningFailure", "cluster_result")
          /\ raised' = Append(raised, exc')
    /\ UNCHANGED <<setup_file, job, lastState, jobDetails, watcher, slept>>
    /\ UNCHANGED dataVars
    /\ UNCHANGED fleetVars
    /\ UNCHANGED logVars

\* _submit_single_pyspark_job: dataproc_job_client.submit_job(...)
SubmitJob ==
    /\ pc = "submit_job"
    /\ remote' = [remote EXCEPT !.jobs =
                    Append(@, JobSpec(loc.cluster_name, desc.bucket_id,
                                      loc.driver_path, loc.egg_path,
                                      desc.jar_file_uris, PysparkProperties(desc)))]
    /\ \/ /\ trace' = Append(trace, Call("submit_job", "ok"))
          /\ job' = "job-1"
          /\ pc' = "get_job"
          /\ UNCHANGED <<exc, raised>>
       \/ /\ trace' = Append(trace, Call("submit_job", "raise"))
          /\ job' = job
          /\ pc' = ClusterScopeExit
          /\ exc' = Exc("JobSubmissionFailure", "submit_job")
          /\ raised' = Append(raised, exc')
    /\ UNCHANGED <<setup_file, cluster, lastState, jobDetails, watcher, slept,
                   desc, desc0, loc>>
    /\ UNCHANGED fleetVars
    /\ UNCHANGED logVars

\* The number of non-terminal states the watcher has observed.
NonTerminalSeen ==
    Cardinality({i \in 1..Len(trace) :
        trace[i].op = "get_job" /\ trace[i].out \in NonTerminalStates})

\* _wait_for_job_to_finish: one pass of `while True` up to the sleep: get_job
\* returns a job in some state, and the watcher returns, raises or goes to
\* sleep on it.
GetJob ==
    /\ pc = "get_job"
    /\ \E state \in JobStates, d \in Details :
        /\ state \in NonTerminalStates => NonTerminalSeen < MaxPolls
        /\ trace' = Append(trace, Call("get_job", state))
        /\ lastState' = state
        /\ jobDetails' = IF state = "ERROR" THEN d ELSE ""
        /\ LET step == WatcherStep(state) IN
            /\ watcher' = IF step = "sleep" THEN "" ELSE step
            /\ pc' = IF step = "sleep" THEN "sleep" ELSE WaitExit
            /\ exc' = IF step = "raise_details"
                        THEN Exc("JobExecutionError", jobDetails')
                      ELSE IF step = "raise_cancelled"
                        THEN Exc("JobCancelled", CancelledMessage)
                      ELSE exc
            /\ raised' = IF exc' # exc THEN Append(raised, exc') ELSE raised
    /\ UNCHANGED <<setup_file, cluster, job, slept>>
    /\ UNCHANGED dataVars
    /\ UNCHANGED fleetVars
    /\ UNCHANGED logVars

\* _wait_for_job_to_finish: get_job itself raises.
GetJobRaises ==
    /\ pc = "get_job"
    /\ trace' = Append(trace, Call("get_job", "raise")) \o OnPollFailure
    /\ watcher' = "raise_call"
    /\ pc' = WaitExit
    /\ exc' = Exc("StatusPollFailure", "get_job")
    /\ raised' = Append(raised, exc')
    /\ UNCHANGED <<setup_file, cluster, job, lastState, jobDetails, slept>>
    /\ UNCHANGED dataVars
    /\ UNCHANGED fleetVars
    /\ UNCHANGED logVars

\* _wait_for_job_to_finish: time.sleep(5), then the next pass of the loop.
Sleep ==
    /\ pc = "sleep"
    /\ trace' = Append(trace, Call("sleep", "ok"))
    /\ slept' = slept + SleepFor(Cardinality({i \in 1..Len(trace) : trace[i].op = "sleep"}))
    /\ pc' = AfterSleep
    /\ UNCHANGED <<setup_file, exc, raised, cluster, job, lastState, jobDetails,
                   watcher>>
    /\ UNCHANGED dataVars
    /\ UNCHANGED fleetVars
    /\ UNCHANGED logVars

\* A step of _print_job_output_log, which runs in the `finally` of run().
LogStep(at, op, next) ==
    /\ pc = at
    /\ \E out \in Outcomes :
        /\ trace' = Append(trace, Call(op, out))
        /\ IF out = "ok"
           THEN /\ pc' = next
                /\ UNCHANGED <<exc, raised>>
           ELSE /\ pc' = ClusterScopeExit
                /\ exc' = RaiseInFinally(exc, Exc("LogRetrievalFailure", op))
                /\ raised' = Append(raised, Exc("LogRetrievalFailure", op))
    /\ UNCHANGED <<setup_file, cluster, job, lastState, jobDetails, watcher, slept>>
    /\ UNCHANGED dataVars
    /\ UNCHANGED fleetVars
    /\ UNCHANGED logVars

\* _print_job_output_log: dataproc_cluster_client.get_job(...)
LogGetJob == LogStep("log_get_job", "log_get_job", "download_log")

\* _print_job_output_log: storage_client.download_blob_to_file(...) and the
\* decoding of the buffer
DownloadLog == LogStep("download_log", "download_log", ClusterScopeExit)

\* _with_temp_cluster, `finally`: _delete_cluster(...).  Then run() is left:
\* it returns if nothing propagates, and raises what propagates otherwise.
DeleteCluster ==
    /\ pc = "delete_cluster"
    /\ remote' = [remote EXCEPT !.deleted = Append(@, loc.cluster_name)]
    /\ \/ /\ trace' = Append(trace, Call("delete_cluster", "ok"))
          /\ cluster' = IF cluster = "absent" THEN "absent" ELSE "deleted"
          /\ UNCHANGED <<exc, raised>>
       \/ /\ trace' = Append(trace, Call("delete_cluster", "raise"))
          /\ cluster' = cluster
          /\ exc' = RaiseInFinally(exc, Exc("ClusterTeardownFailure", "delete_cluster"))
          /\ raised' = Append(raised, Exc("ClusterTeardownFailure", "delete_cluster"))
    /\ pc' = "done"
    /\ UNCHANGED <<setup_file, job, lastState, jobDetails, watcher, slept,
                   desc, desc0, loc>>
    /\ UNCHANGED fleetVars
    /\ UNCHANGED logVars

Next ==
    \/ EnsureHasSetupFile
    \/ GenerateInternalJobid
    \/ Clients
    \/ PrepareDriverCallable
    \/ GetBucket
    \/ BuildProjectEgg
    \/ UploadEgg
    \/ GenerateDriverScript
    \/ UploadDriver
    \/ ClusterClient
    \/ CreateCluster
    \/ ClusterResult
    \/ SubmitJob
    \/ GetJob
    \/ GetJobRaises
    \/ Sleep
    \/ LogGetJob
    \/ DownloadLog
    \/ DeleteCluster

Spec == Init /\ [][Next]_vars

----------------------------------------------------------------------------
(* The run with a watcher that is never cut short: `while True` has no cap, *)
(* so beyond MaxPolls non-terminal observations the history keeps no more  *)
(* of them and the loop goes on                                            *)

\* _wait_for_job_to_finish: one more pass of `while True` on a non-terminal
\* state, once the history is full.
PollOn ==
    /\ pc = "get_job"
    /\ NonTerminalSeen >= MaxPolls
    /\ \E state \in NonTerminalStates :
        /\ WatcherStep(state) = "sleep"
        /\ lastState' = state
    /\ pc' = "sleep_on"
    /\ UNCHANGED <<setup_file, trace, exc, raised, cluster, job, jobDetails,
                   watcher, slept>>
    /\ UNCHANGED dataVars
    /\ UNCHANGED fleetVars
    /\ UNCHANGED logVars

\* _wait_for_job_to_finish: time.sleep(5) of such a pass.
SleepOn ==
    /\ pc = "sleep_on"
    /\ pc' = AfterSleep
    /\ UNCHANGED <<setup_file, trace, exc, raised, cluster, job, lastState,
                   jobDetails, watcher, slept>>
    /\ UNCHANGED dataVars
    /\ UNCHANGED fleetVars
    /\ UNCHANGED logVars

LiveNext ==
    \/ Next
    \/ PollOn
    \/ SleepOn

\* The steps of run() from the creation of the cluster on.
ScopeNext ==
    \/ CreateCluster
    \/ ClusterResult
    \/ SubmitJob
    \/ GetJob
    \/ GetJobRaises
    \/ Sleep
    \/ LogGetJob
    \/ DownloadLog
    \/ DeleteCluster
    \/ PollOn
    \/ SleepOn

\* Every call the run makes in the cluster scope returns or raises, so the
\* run always takes its next step there.
LiveSpec == Init /\ [][LiveNext]_vars /\ WF_vars(ScopeNext)

----------------------------------------------------------------------------
(* Several runs of the job at once: the steps of run() that name a cluster *)
(* or a blob, for each run, on one bucket and one Dataproc region          *)

\* The variables of the single run, which FleetSpec leaves alone.
runVars == <<pc, setup_file, trace, exc, raised, cluster, job, lastState,
             jobDetails, watcher, slept, desc, desc0, loc, remote>>

\* Run r passes `name` to the remote call `op`.
FleetCall(r, op, name) == [run |-> r, op |-> op, name |-> name]

\* Run r goes to `next`.
FleetGoto(r, next) == runs' = [runs EXCEPT ![r].pc = next]

\* job_internal_id = self._generate_internal_jobid(runtime)
FleetGenerateInternalJobid(r) ==
    /\ runs[r].pc = "idle"
    /\ \E now \in Clocks, suffix \in Suffixes :
        runs' = [runs EXCEPT ![r] =
                    [pc |-> "upload",
                     id |-> InternalJobid(desc.id, desc.env, now, suffix)]]
    /\ UNCHANGED <<clusters, fleetCalls>>
    /\ UNCHANGED runVars
    /\ UNCHANGED logVars

\* _upload_egg(...) and generate_and_upload_driver(...): both blobs go under
\* the run's prefix, or one of the steps before the cluster scope raises.
FleetUpload(r) ==
    /\ runs[r].pc = "upload"
    /\ \/ /\ fleetCalls' = fleetCalls \cup
                {FleetCall(r, "upload", UploadPrefix(desc, runs[r].id))}
          /\ FleetGoto(r, "create_cluster")
       \/ /\ FleetGoto(r, Abort)
          /\ UNCHANGED fleetCalls
    /\ UNCHANGED clusters
    /\ UNCHANGED runVars
    /\ UNCHANGED logVars

\* _with_temp_cluster: _create_cluster(...).  Dataproc refuses a name that
\* is taken; a call that raises may have left a cluster behind.
FleetCreateCluster(r) ==
    /\ runs[r].pc = "create_cluster"
    /\ LET name == ScopeClusterName(desc, runs[r].id) IN
        /\ fleetCalls' = fleetCalls \cup {FleetCall(r, "create_cluster", name)}
        /\ \/ /\ name \notin clusters
              /\ clusters' = clusters \cup {name}
              /\ FleetGoto(r, "submit_job")
           \/ /\ clusters' \in {clusters, clusters \cup {name}}
              /\ FleetGoto(r, ClusterScopeExit)
    /\ UNCHANGED runVars
    /\ UNCHANGED logVars

\* _submit_single_pyspark_job(...)
FleetSubmitJob(r) ==
    /\ runs[r].pc = "submit_job"
    /\ fleetCalls' = fleetCalls \cup
            {FleetCall(r, "submit_job", ScopeClusterName(desc, runs[r].id))}
    /\ \/ FleetGoto(r, "get_job")
       \/ FleetGoto(r, ClusterScopeExit)
    /\ UNCHANGED clusters
    /\ UNCHANGED runVars
    /\ UNCHANGED logVars

\* _wait_for_job_to_finish and _print_job_output_log, to the end of the
\* scope's body.
FleetWait(r) ==
    /\ runs[r].pc = "get_job"
    /\ FleetGoto(r, ClusterScopeExit)
    /\ UNCHANGED <<clusters, fleetCalls>>
    /\ UNCHANGED runVars
    /\ UNCHANGED logVars

\* _with_temp_cluster, `finally`: _delete_cluster(...)
FleetDeleteCluster(r) ==
    /\ runs[r].pc = "delete_cluster"
    /\ LET name == ScopeClusterName(desc, runs[r].id) IN
        /\ fleetCalls' = fleetCalls \cup {FleetCall(r, "delete_cluster", name)}
        /\ \/ clusters' = clusters \ {name}
           \/ clusters' = clusters
    /\ FleetGoto(r, "done")
    /\ UNCHANGED runVars
    /\ UNCHANGED logVars

FleetNext ==
    \E r \in Runs :
        \/ FleetGenerateInternalJobid(r)
        \/ FleetUpload(r)
        \/ FleetCreateCluster(r)
        \/ FleetSubmitJob(r)
        \/ FleetWait(r)
        \/ FleetDeleteCluster(r)

FleetSpec == Init /\ [][FleetNext]_vars

----------------------------------------------------------------------------
(* Calls of BigflowLogging.configure_logging, one after the other *)

\* configure_logging is entered: it warns and returns if logging is set, and
\* goes on otherwise.
ConfigureLogging ==
    /\ log_pc = "idle"
    /\ log_hist.calls < MaxLogCalls
    /\ \E project_id \in ProjectIds, logger_name \in LoggerNames,
          workflow_id \in WorkflowIds :
        IF AlreadyConfigured(IS_LOGGING_SET)
        THEN /\ log_hist' = [log_hist EXCEPT !.calls = @ + 1, !.warnings = @ + 1]
             /\ UNCHANGED <<log_pc, log_loc>>
        ELSE /\ log_hist' = [log_hist EXCEPT !.calls = @ + 1]
             /\ log_pc' = "basicConfig"
             /\ log_loc' = [NoLogCall EXCEPT !.project_id = project_id,
                                             !.logger_name = logger_name,
                                             !.workflow_id = workflow_id]
    /\ UNCHANGED <<IS_LOGGING_SET, root_handlers, excepthook>>
    /\ UNCHANGED runVars
    /\ UNCHANGED fleetVars

\* logging.basicConfig(level=logging.INFO): does nothing if the root logger
\* has a handler.
BasicConfig ==
    /\ log_pc = "basicConfig"
    /\ root_handlers' = IF root_handlers = << >> THEN <<StreamHandler>>
                        ELSE root_handlers
    /\ log_pc' = "GCPLoggerHandler"
    /\ UNCHANGED <<IS_LOGGING_SET, excepthook, log_loc, log_hist>>
    /\ UNCHANGED runVars
    /\ UNCHANGED fleetVars

\* gcp_logger_handler = GCPLoggerHandler(...), setLevel and the logging.info
\* of the link; or the constructor raises and configure_logging is left.
ConstructHandler ==
    /\ log_pc = "GCPLoggerHandler"
    /\ \/ /\ log_loc' = [log_loc EXCEPT !.gcp_logger_handler =
                            GCPLoggerHandler(log_loc.project_id,
                                             log_loc.logger_name,
                                             log_loc.workflow_id)]
          /\ log_pc' = "addHandler"
          /\ UNCHANGED log_hist
       \/ /\ log_loc' = NoLogCall
          /\ log_pc' = "idle"
          /\ log_hist' = [log_hist EXCEPT !.failures = @ + 1]
    /\ UNCHANGED <<IS_LOGGING_SET, root_handlers, excepthook>>
    /\ UNCHANGED runVars
    /\ UNCHANGED fleetVars

\* logging.getLogger(None).addHandler(gcp_logger_handler)
AddHandler ==
    /\ log_pc = "addHandler"
    /\ root_handlers' = Append(root_handlers, log_loc.gcp_logger_handler)
    /\ log_pc' = "excepthook"
    /\ UNCHANGED <<IS_LOGGING_SET, excepthook, log_loc, log_hist>>
    /\ UNCHANGED runVars
    /\ UNCHANGED fleetVars

\* sys.excepthook = _uncaught_exception_handler(logging.getLogger())
SetExcepthook ==
    /\ log_pc = "excepthook"
    /\ excepthook' = "_uncaught_exception_handler"
    /\ log_hist' = [log_hist EXCEPT !.installs = @ + 1]
    /\ log_pc' = "IS_LOGGING_SET"
    /\ UNCHANGED <<IS_LOGGING_SET, root_handlers, log_loc>>
    /\ UNCHANGED runVars
    /\ UNCHANGED fleetVars

\* BigflowLogging.IS_LOGGING_SET = True, and configure_logging returns.
SetLoggingSet ==
    /\ log_pc = "IS_LOGGING_SET"
    /\ IS_LOGGING_SET' = TRUE
    /\ log_loc' = NoLogCall
    /\ log_pc' = "idle"
    /\ UNCHANGED <<root_handlers, excepthook, log_hist>>
    /\ UNCHANGED runVars
    /\ UNCHANGED fleetVars

LogNext ==
    \/ ConfigureLogging
    \/ BasicConfig
    \/ ConstructHandler
    \/ AddHandler
    \/ SetExcepthook
    \/ SetLoggingSet

LogSpec == Init /\ [][LogNext]_vars

----------------------------------------------------------------------------
(* Reading the run's history *)

\* The positions of the calls of `op` in the trace.
Calls(op) == {i \in 1..Len(trace) : trace[i].op = op}

Count(op) == Cardinality(Calls(op))

\* Some call of `op` returned normally.
Returned(op) == \E i \in Calls(op) : trace[i].out = "ok"

\* Every call of `a` comes before every call of `b`.
Before(a, b) == \A i \in Calls(a), j \in Calls(b) : i < j

\* Some call of `a` that returned normally precedes every call of `b`.
CompletedBefore(a, b) ==
    \A j \in Calls(b) : \E i \in Calls(a) : i < j /\ trace[i].out = "ok"

\* An exception of this kind was raised during the run.
WasRaised(kind) == \E i \in 1..Len(raised) : raised[i].kind = kind

\* The positions of the status polls that ended the watcher's loop.
EndingPolls(outs) ==
    {i \in Calls("get_job") : trace[i].out \in outs}

\* run() has been left.
Finished == pc = "done"

\* run() returned without raising.
ReturnedNormally == Finished /\ exc = NoExc

----------------------------------------------------------------------------
(* C1 *)

\* C1 (as stated): whenever run() is left, by return or by raise,
\* delete_cluster has been invoked exactly once.
C1_TeardownOnceEveryRun == Finished => Count("delete_cluster") = 1

\* C1 (amended): delete_cluster is never invoked twice; a run that invoked
\* create_cluster has invoked delete_cluster exactly once when it is left,
\* whatever raised in between; a run that never invoked create_cluster never
\* invokes delete_cluster.
C1_TeardownOnceAfterCreate ==
    /\ Count("delete_cluster") <= 1
    /\ (Finished /\ Count("create_cluster") > 0) => Count("delete_cluster") = 1
    /\ Count("create_cluster") = 0 => Count("delete_cluster") = 0

\* A run left after submission succeeded and log retrieval raised, with the
\* cluster deleted once.
C1_Witness ==
    /\ Finished
    /\ WasRaised("LogRetrievalFailure")
    /\ Returned("submit_job")
    /\ Count("delete_cluster") = 1

----------------------------------------------------------------------------
(* C2 *)

\* Some failure other than the teardown's was raised before delete_cluster
\* raised.
TeardownFailedAfterFailure ==
    /\ Finished
    /\ Len(raised) >= 2
    /\ raised[Len(raised)].kind = "ClusterTeardownFailure"

\* C2: when delete_cluster raises while another failure is propagating, the
\* exception that leaves run() is that other failure, not the teardown's.
C2_TeardownFailureDoesNotMask ==
    TeardownFailedAfterFailure =>
        /\ exc.kind # "ClusterTeardownFailure"
        /\ \E i \in 1..(Len(raised) - 1) : exc = raised[i]

----------------------------------------------------------------------------
(* C3 *)

\* C3: when provisioning failed, run() is left with delete_cluster attempted
\* (at least if a partial cluster exists), the provisioning failure reaches
\* the caller, and no job was submitted, polled or had its log retrieved.
C3_ProvisioningFailure ==
    WasRaised("ClusterProvisioningFailure") =>
        /\ Count("submit_job") = 0
        /\ Count("get_job") = 0
        /\ Count("log_get_job") = 0
        /\ Count("download_log") = 0
        /\ Finished =>
            /\ Count("delete_cluster") = 1
            /\ exc.kind = "ClusterProvisioningFailure"

----------------------------------------------------------------------------
(* C4 *)

\* The order of the steps that does not depend on how polling ended.
StepOrder ==
    /\ CompletedBefore("build_egg", "create_cluster")
    /\ CompletedBefore("upload_egg", "create_cluster")
    /\ CompletedBefore("pickle", "create_cluster")
    /\ CompletedBefore("upload_driver", "create_cluster")
    /\ CompletedBefore("create_cluster", "submit_job")
    /\ CompletedBefore("cluster_result", "submit_job")
    /\ CompletedBefore("submit_job", "get_job")
    /\ Before("get_job", "log_get_job")
    /\ Before("sleep", "log_get_job")
    /\ Before("log_get_job", "delete_cluster")
    /\ Before("download_log", "delete_cluster")
    /\ (Returned("submit_job") /\ Count("delete_cluster") > 0)
            => Count("log_get_job") = 1

\* C4 (as stated): the steps are strictly sequential, and a poll has observed
\* a terminal state before log retrieval starts.
C4_StrictlySequential ==
    /\ StepOrder
    /\ Count("log_get_job") > 0 => EndingPolls(TerminalStates) # {}

\* C4 (amended): the steps are strictly sequential, and polling has ended
\* before log retrieval starts: the poll right before it observed a terminal
\* state or raised.
C4_SequentialPollingEnded ==
    /\ StepOrder
    /\ \A i \in Calls("log_get_job") :
        /\ i > 1
        /\ trace[i - 1].op = "get_job"
        /\ trace[i - 1].out \in TerminalStates \cup {"raise"}

\* A complete run through every step, with some sleeping in between.
C4_Witness ==
    /\ Finished
    /\ Count("sleep") >= 2
    /\ Count("download_log") = 1
    /\ Count("delete_cluster") = 1

----------------------------------------------------------------------------
(* C5 *)

\* C5: when only log retrieval failed (the teardown did not), a DONE job
\* still makes run() return normally and an ERROR or CANCELLED job still
\* makes run() raise the job's failure.
C5_LogFailureNotFatal ==
    (/\ Finished
     /\ WasRaised("LogRetrievalFailure")
     /\ ~WasRaised("ClusterTeardownFailure")) =>
        /\ lastState = "DONE" /\ watcher = "return" => exc = NoExc
        /\ watcher = "raise_details" => exc.kind = "JobExecutionError"
        /\ watcher = "raise_cancelled" => exc.kind = "JobCancelled"

----------------------------------------------------------------------------
(* C6 *)

\* C6: when several failures occurred and the first one is fatal, the
\* exception that leaves run() is the first one.
C6_FirstFatalErrorSurfaces ==
    (/\ Finished
     /\ Len(raised) >= 2
     /\ raised[1].kind # "LogRetrievalFailure") => exc = raised[1]

----------------------------------------------------------------------------
(* C7 *)

\* C7: when the watcher observed DONE, run() returns normally and
\* delete_cluster was invoked once.
C7_DoneCompletesNormally ==
    (Finished /\ watcher = "return") =>
        /\ exc = NoExc
        /\ Count("delete_cluster") = 1

----------------------------------------------------------------------------
(* C8 *)

\* C8: when the watcher observed ERROR with details d, run() raises an
\* exception whose message is d; when it observed CANCELLED, run() raises the
\* fixed cancellation error; delete_cluster was invoked once in both cases.
C8_ErrorAndCancelledSurface ==
    /\ (Finished /\ watcher = "raise_details") =>
        /\ exc.kind # "none"
        /\ exc.msg = jobDetails
        /\ Count("delete_cluster") = 1
    /\ (Finished /\ watcher = "raise_cancelled") =>
        /\ exc = Exc("JobCancelled", CancelledMessage)
        /\ Count("delete_cluster") = 1

----------------------------------------------------------------------------
(* C9 *)

\* The last call of the trace.
LastCall == trace[Len(trace)]

\* A non-terminal observation sends the watcher to sleep and then to the next
\* poll, however many polls came before; the watcher has not been left.
NonTerminalPollsAgain ==
    /\ (Len(trace) > 0 /\ LastCall.op = "get_job"
            /\ LastCall.out \in NonTerminalStates)
        => (pc = "sleep" /\ watcher = "" /\ exc = NoExc)
    /\ (Len(trace) > 0 /\ LastCall.op = "sleep")
        => (pc = "get_job" /\ watcher = "" /\ exc = NoExc)
    /\ \A i \in Calls("get_job") :
        (trace[i].out \in NonTerminalStates /\ i + 2 <= Len(trace))
            => (trace[i + 1].op = "sleep" /\ trace[i + 2].op = "get_job")

\* The first terminal observation ends the watcher: DONE returns, ERROR raises
\* the status details, CANCELLED raises the fixed message, and the watcher
\* polls no more.
TerminalEndsWatcher ==
    /\ \A i \in EndingPolls(TerminalStates \cup {"raise"}) :
        \A j \in (i + 1)..Len(trace) : trace[j].op \notin {"get_job", "sleep"}
    /\ \A i \in EndingPolls(TerminalStates) :
        /\ lastState = trace[i].out
        /\ watcher = WatcherStep(trace[i].out)
    /\ watcher = "return" =>
        /\ lastState = "DONE"
        /\ \/ raised = << >>
           \/ raised[1].kind \in {"LogRetrievalFailure", "ClusterTeardownFailure"}
    /\ watcher = "raise_details" =>
        /\ lastState = "ERROR"
        /\ jobDetails \in Details
        /\ raised[1] = Exc("JobExecutionError", jobDetails)
    /\ watcher = "raise_cancelled" =>
        /\ lastState = "CANCELLED"
        /\ raised[1] = Exc("JobCancelled", CancelledMessage)

\* C9 (as stated): the watcher is left only once it has observed a terminal
\* state; non-terminal observations poll again; the first terminal
\* observation ends it as its state says.
C9_WatcherExitsOnlyOnTerminal ==
    /\ NonTerminalPollsAgain
    /\ TerminalEndsWatcher
    /\ watcher # "" => lastState \in TerminalStates

\* C9 (amended): the watcher is left only once it has observed a terminal
\* state or once get_job itself has raised, which propagates at once;
\* non-terminal observations poll again; the first terminal observation ends
\* it as its state says.
C9_WatcherExitsOnTerminalOrRaise ==
    /\ NonTerminalPollsAgain
    /\ TerminalEndsWatcher
    /\ watcher # "" =>
        \/ lastState \in TerminalStates /\ watcher # "raise_call"
        \/ /\ watcher = "raise_call"
           /\ lastState \notin TerminalStates
           /\ raised[1].kind = "StatusPollFailure"
           /\ EndingPolls({"raise"}) # {}

\* The watcher raised the details of an ERROR seen after MaxPolls
\* non-terminal observations.
C9_Witness ==
    /\ watcher = "raise_details"
    /\ NonTerminalSeen = MaxPolls
    /\ Count("sleep") = MaxPolls

----------------------------------------------------------------------------
(* C10 *)

\* C10: after submit_job raised there is one call of submit_job, no status
\* poll and no log retrieval, and run() is left raising the submission
\* failure with delete_cluster invoked once.
C10_SubmissionFailureFatal ==
    WasRaised("JobSubmissionFailure") =>
        /\ Count("submit_job") = 1
        /\ Count("get_job") = 0
        /\ Count("sleep") = 0
        /\ Count("log_get_job") = 0
        /\ Count("download_log") = 0
        /\ pc \in {"delete_cluster", "done"}
        /\ Finished =>
            /\ Count("delete_cluster") = 1
            /\ exc.kind = "JobSubmissionFailure"

----------------------------------------------------------------------------
(* C11 *)

\* Log retrieval is attempted at most once, only after a successful
\* submission, and exactly once by the end of a run that submitted.
LogAttemptedOnce ==
    /\ Count("log_get_job") <= 1
    /\ Count("download_log") <= Count("log_get_job")
    /\ Count("log_get_job") > 0 => Returned("submit_job")
    /\ (Finished /\ Returned("submit_job")) => Count("log_get_job") = 1

\* C11 (as stated): log retrieval is attempted exactly once on every run that
\* submitted, and only once the last observed job state is terminal.
C11_LogAfterTerminalState ==
    /\ LogAttemptedOnce
    /\ Count("log_get_job") > 0 => lastState \in TerminalStates

\* C11 (amended): log retrieval is attempted exactly once on every run that
\* submitted, and only once the watcher has been left: the last observed job
\* state is terminal, or get_job raised and the last observed state is
\* non-terminal or missing.
C11_LogAfterWatcherLeft ==
    /\ LogAttemptedOnce
    /\ (pc \in {"log_get_job", "download_log"} \/ Count("log_get_job") > 0) =>
        /\ watcher # ""
        /\ \/ lastState \in TerminalStates /\ watcher = WatcherStep(lastState)
           \/ /\ watcher = "raise_call"
              /\ lastState \in NonTerminalStates \cup {""}
              /\ EndingPolls({"raise"}) # {}

\* Log retrieval was attempted once after the job was seen CANCELLED.
C11_Witness ==
    /\ Finished
    /\ lastState = "CANCELLED"
    /\ Count("log_get_job") = 1
    /\ Count("download_log") = 1

----------------------------------------------------------------------------
(* C12 *)

\* C12: when pickling the work unit raised, nothing was uploaded, no cluster
\* was created and no job was submitted.
C12_PicklingFailsBeforeRemote ==
    WasRaised("PackagingFailure") =>
        /\ Count("upload_egg") = 0
        /\ Count("upload_driver") = 0
        /\ Count("create_cluster") = 0
        /\ Count("submit_job") = 0

----------------------------------------------------------------------------
(* C14 *)

\* C14: create_cluster, submit_job, delete_cluster and the two uploads are
\* each invoked at most once in a run.
C14_NoRetry ==
    \A op \in {"create_cluster", "submit_job", "delete_cluster",
               "upload_egg", "upload_driver"} : Count(op) <= 1

\* A finished run that made each of the five calls, the deletion after a
\* failed submission.
C14_Witness ==
    /\ Finished
    /\ WasRaised("JobSubmissionFailure")
    /\ \A op \in {"create_cluster", "submit_job", "delete_cluster",
                  "upload_egg", "upload_driver"} : Count(op) = 1

----------------------------------------------------------------------------
(* C13 *)

\* The output has a line "creating '<file>'".
HasMarkerLine(output) ==
    \E i \in 1..Len(output) : output[i].word = "creating" /\ output[i].quoted

\* The build was run and its process failed or its output has no marker.
BuildUnusable ==
    /\ Count("build_egg") > 0
    /\ loc.build.exit # 0 \/ ~HasMarkerLine(loc.build.output)

\* C13: when the build process failed or printed no "creating '<file>'"
\* line, run() is left at once with that failure: nothing was uploaded, no
\* cluster was created and no job was submitted.
C13_BuildFailureBeforeRemote ==
    BuildUnusable =>
        /\ Finished
        /\ exc.kind = "ArtifactBuildFailure"
        /\ raised = <<exc>>
        /\ loc.egg_local_path = << >>
        /\ remote = NothingAsked
        /\ \A op \in {"upload_egg", "pickle", "upload_driver", "create_cluster",
                      "submit_job", "delete_cluster"} : Count(op) = 0

\* The process exited with 0 and printed no marker line: run() was left.
C13_Witness ==
    /\ Finished
    /\ Count("build_egg") = 1
    /\ loc.build.exit = 0
    /\ ~HasMarkerLine(loc.build.output)
    /\ exc = Exc("ArtifactBuildFailure", "group")

----------------------------------------------------------------------------
(* C16 *)

\* C16: every cluster name and every blob path that run() passes on is built
\* from the one internal job id: the cluster created, the cluster of the
\* job, the cluster deleted, and the prefix of both uploaded blobs.
C16_OneInternalId ==
    LET jid == loc.job_internal_id IN
    /\ \A i \in 1..Len(remote.created) : remote.created[i].cluster_name = jid
    /\ \A i \in 1..Len(remote.jobs) : remote.jobs[i].cluster_name = jid
    /\ \A i \in 1..Len(remote.deleted) : remote.deleted[i] = jid
    /\ \A b \in remote.eggs :
        HasPrefix(b.path, jid) /\ b.path = jid \o Slash \o BaseName(b.file)
    /\ \A b \in remote.drivers :
        HasPrefix(b.path, jid) /\ b.path = jid \o Slash \o DriverFilename
    /\ remote # NothingAsked => jid # << >>
    /\ pc \notin {"ensure_setup_file", "generate_jobid"} => jid # << >>

\* A finished run that uploaded both blobs, created a cluster, submitted a
\* job and deleted the cluster.
C16_Witness ==
    /\ Finished
    /\ Cardinality(remote.eggs) = 1
    /\ Cardinality(remote.drivers) = 1
    /\ Len(remote.created) = 1
    /\ Len(remote.jobs) = 1
    /\ Len(remote.deleted) = 1

----------------------------------------------------------------------------
(* C18 *)

\* The number a sequence of decimal digits writes, -1 if one is no digit.
RECURSIVE Decimal(_)
Decimal(s) ==
    IF s = << >> THEN 0
    ELSE LET last == s[Len(s)]
             rest == Decimal(SubSeq(s, 1, Len(s) - 1))
         IN  IF rest < 0 \/ last \notin Range(DigitChars) THEN -1
             ELSE 10 * rest + (CHOOSE i \in 0..9 : DigitChars[i + 1] = last)

\* b is a, or the lowercase letter of the uppercase letter a.
IsLowerOf(a, b) ==
    IF a \in Range(UpperLetters)
    THEN \E i \in 1..26 : UpperLetters[i] = a /\ LowerLetters[i] = b
    ELSE b = a

\* s is  <lowercase id>-<env>-YYYY-MM-DD-HHMMSS-<suffix>  for this id, env,
\* time and suffix.
IsInternalJobid(s, id, env, now, suffix) ==
    LET n == Len(s)
        k == Len(id)
        e == Len(env)
        ts == SubSeq(s, k + e + 3, k + e + 19)
    IN  /\ n = k + 1 + e + 1 + 17 + 1 + SuffixLen
        /\ \A i \in 1..k : IsLowerOf(id[i], s[i]) /\ s[i] \notin Range(UpperLetters)
        /\ s[k + 1] = "-"
        /\ SubSeq(s, k + 2, k + e + 1) = env
        /\ s[k + e + 2] = "-"
        /\ Decimal(SubSeq(ts, 1, 4)) = now.year
        /\ ts[5] = "-"
        /\ Decimal(SubSeq(ts, 6, 7)) = now.month
        /\ ts[8] = "-"
        /\ Decimal(SubSeq(ts, 9, 10)) = now.day
        /\ ts[11] = "-"
        /\ Decimal(SubSeq(ts, 12, 13)) = now.hour
        /\ Decimal(SubSeq(ts, 14, 15)) = now.minute
        /\ Decimal(SubSeq(ts, 16, 17)) = now.second
        /\ s[k + e + 20] = "-"
        /\ SubSeq(s, n - SuffixLen + 1, n) = suffix
        /\ Len(suffix) = SuffixLen
        /\ \A i \in 1..SuffixLen : suffix[i] \in SuffixAlphabet

\* "demo-dev-2024-01-01-120000-abc1234567"
DemoJobid ==
    <<"d", "e", "m", "o", "-", "d", "e", "v", "-",
      "2", "0", "2", "4", "-", "0", "1", "-", "0", "1", "-",
      "1", "2", "0", "0", "0", "0", "-",
      "a", "b", "c", "1", "2", "3", "4", "5", "6", "7">>

\* The inputs of the example: id "demo", env "dev", 2024-01-01 12:00:00,
\* suffix "abc1234567".
DemoInputs ==
    /\ desc.id = <<"d", "e", "m", "o">>
    /\ desc.env = <<"d", "e", "v">>
    /\ loc.now = [year |-> 2024, month |-> 1, day |-> 1,
                  hour |-> 12, minute |-> 0, second |-> 0]
    /\ loc.job_random_suffix =
            <<"a", "b", "c", "1", "2", "3", "4", "5", "6", "7">>

\* C18: the generated internal job id is the lowercased id, the job's env,
\* the clock as YYYY-MM-DD-HHMMSS and the ten-character suffix, joined by
\* "-"; the example's inputs give the example's id.
C18_InternalJobidFormat ==
    loc.job_internal_id # << >> =>
        /\ IsInternalJobid(loc.job_internal_id, desc.id, desc.env, loc.now,
                           loc.job_random_suffix)
        /\ desc.env # << >>
        /\ DemoInputs => loc.job_internal_id = DemoJobid

\* The id of the example was generated from the example's inputs.
C18_Witness == DemoInputs /\ loc.job_internal_id = DemoJobid

----------------------------------------------------------------------------
(* C19 *)

----------------------------------------------------------------------------
(* C20 *)

\* C20 (as stated): run() leaves every field of the job as it was when it
\* was called.
C20_DescriptorImmutable ==
    /\ desc = desc0.desc
    /\ setup_file = desc0.setup_file

\* C20 (amended): run() leaves every field of the job as it was, except
\* setup_file when it was unset: its first statement sets it to the setup
\* file found or created for the project, and it stays that.
C20_ImmutableButSetupFile ==
    /\ desc = desc0.desc
    /\ desc0.setup_file # "" => setup_file = desc0.setup_file
    /\ desc0.setup_file = "" =>
        IF pc = "ensure_setup_file" THEN setup_file = ""
        ELSE setup_file = "found_setup.py"

\* A finished run of a job built without a setup file and with a `runtime`
\* among its driver arguments: the wrapper's kwargs got the run's runtime.
C20_Witness ==
    /\ Finished
    /\ desc0.setup_file = ""
    /\ <<"runtime", "old">> \in desc.driver_arguments
    /\ <<"runtime", loc.runtime>> \in loc.driver.kwargs
    /\ Len(remote.jobs) = 1

----------------------------------------------------------------------------
(* C17 *)

\* What calling the wrapper's callable with the wrapper's arguments is, in
\* an environment updated with the wrapper's overrides.
DirectCall(w, environ) ==
    [environ |-> {p \in environ : \A q \in w.envs : q[1] # p[1]} \cup w.envs,
     callable |-> w.callable,
     args |-> w.args,
     kwargs |-> w.kwargs]

\* Characters that cannot stand in a quoted literal as they are.
UnsafeChars == {"'", "\"", "\\", "\n", "\r"}

\* The script round-trips the wrapper.
RoundTrips(script, w) ==
    LET bytes == Pickle(w)
        chars == EvalBytesLiteral(script.data)
    IN  /\ B85Decode(B85Encode(bytes)) = bytes
        /\ B85Decode(chars) = bytes
        /\ \A i \in 1..Len(chars) :
            chars[i] \in Range(B85Alphabet) /\ chars[i] \notin UnsafeChars
        /\ script.data = <<"b", "'">> \o chars \o <<"'">>
        /\ Unpickle(B85Decode(chars)) = w
        /\ \A environ \in Environs : RunScript(script, environ) = DirectCall(w, environ)

\* C17: the generated script, decoded and run, calls the job's callable with
\* the work unit's arguments in an environment updated with its overrides;
\* decoding the encoded pickle gives the pickle back.
C17_ScriptRoundTrip ==
    /\ loc.script # NoScript =>
        /\ RoundTrips(loc.script, loc.driver)
        /\ loc.driver.callable = desc0.desc.driver_callable
        /\ loc.driver.envs = {<<"env", desc0.desc.env>>}
        /\ \A p \in desc0.desc.driver_arguments :
            p[1] # "runtime" => p \in loc.driver.kwargs
    /\ \A b \in remote.drivers : RoundTrips(b.script, loc.driver)

\* A script was uploaded whose pickle does not fill whole four-byte words.
C17_Witness ==
    /\ Cardinality(remote.drivers) = 1
    /\ Len(Pickle(loc.driver)) % 4 # 0
    /\ Cardinality(loc.driver.kwargs) = 2

----------------------------------------------------------------------------
(* C15 *)

\* Every cluster a run creates, submits to or deletes has the name of the
\* run's own internal job id, and so has the prefix of what it uploads.
OwnNamesOnly ==
    \A c \in fleetCalls : c.name = runs[c.run].id /\ c.name # << >>

\* Run r is in the body of its cluster scope: its cluster was created and
\* has not been deleted by r.
UsingCluster(r) == runs[r].pc \in {"submit_job", "get_job"}

\* C15 (as stated): runs touch only what their own internal job id names,
\* so the cluster of a run that is using it exists: no other run's teardown
\* has deleted it.
C15_NoSharedCluster ==
    /\ OwnNamesOnly
    /\ \A r \in Runs : UsingCluster(r) => runs[r].id \in clusters

\* C15 (amended): runs touch only what their own internal job id names, so
\* the cluster of a run that is using it exists as long as no other run has
\* the same internal job id.
C15_NoSharedClusterUnlessSameId ==
    /\ OwnNamesOnly
    /\ \A r \in Runs :
        (UsingCluster(r) /\ \A o \in Runs \ {r} : runs[o].id # runs[r].id)
            => runs[r].id \in clusters

\* One run has deleted its cluster while the other, with another id, is
\* using its own.
C15_Witness ==
    \E r, o \in Runs :
        /\ runs[r].pc = "done"
        /\ FleetCall(r, "delete_cluster", runs[r].id) \in fleetCalls
        /\ runs[r].id \notin clusters
        /\ UsingCluster(o)
        /\ runs[o].id # runs[r].id
        /\ runs[o].id \in clusters

----------------------------------------------------------------------------
(* C21 *)

\* The run is in the loop of _wait_for_job_to_finish.
Polling == pc \in {"get_job", "sleep", "sleep_on"}

\* delete_cluster has been invoked and run() has been left.
TornDownAndLeft == Finished /\ Count("delete_cluster") > 0

\* C21: as long as every call returns or raises, a run that invoked
\* create_cluster eventually invokes delete_cluster and is left, unless it
\* stays in the watcher's loop for ever because no poll reports a terminal
\* state and none raises; and as long as the run is in that loop,
\* delete_cluster has not been invoked.
C21_TeardownUnlessPollingForever ==
    /\ (<>[]Polling) \/ ((Count("create_cluster") > 0) ~> TornDownAndLeft)
    /\ [](Polling => Count("delete_cluster") = 0)

\* The watcher polls on beyond any number of non-terminal observations,
\* with the cluster created and not deleted.
C21_Witness ==
    /\ pc = "sleep_on"
    /\ NonTerminalSeen >= MaxPolls
    /\ Returned("create_cluster")
    /\ Count("delete_cluster") = 0

----------------------------------------------------------------------------
(* C22 *)

\* _wait_for_job_to_finish has been left, by return or by raise.
WatcherLeft == watcher # ""

\* C22: every sleep of the watcher lasts PollInterval and comes right after
\* a poll that observed a non-terminal state, every such poll is followed by
\* a sleep before anything else, and once the watcher is left after n
\* non-terminal observations it has slept n times and polled n + 1 times.
C22_ConstantInterval ==
    /\ slept = PollInterval * Count("sleep")
    /\ \A i \in Calls("sleep") :
        /\ i > 1
        /\ trace[i - 1].op = "get_job"
        /\ trace[i - 1].out \in NonTerminalStates
    /\ \A i \in Calls("get_job") :
        (trace[i].out \in NonTerminalStates /\ i < Len(trace))
            => trace[i + 1].op = "sleep"
    /\ WatcherLeft =>
        /\ Count("sleep") = NonTerminalSeen
        /\ Count("get_job") = NonTerminalSeen + 1

\* The watcher returned after two non-terminal observations and two sleeps.
C22_Witness ==
    /\ WatcherLeft
    /\ lastState = "DONE"
    /\ NonTerminalSeen = 2
    /\ Count("sleep") = 2
    /\ slept = 2 * PollInterval

----------------------------------------------------------------------------
(* C23 *)

\* The positions in `events` where the job's callable is invoked.
Invocations(events) == {i \in 1..Len(events) : events[i].op = "callable"}

\* C23: running an uploaded script in any environment invokes the job's
\* callable exactly once, after os.environ was updated with the overrides,
\* with no positional arguments and with the job's driver arguments plus
\* the run's runtime as keyword arguments, and nothing else.
C23_EnvThenCallOnce ==
    \A b \in remote.drivers : \A environ \in Environs :
        LET events == ScriptEvents(b.script, environ) IN
            /\ Cardinality(Invocations(events)) = 1
            /\ \A i \in Invocations(events) :
                /\ \E j \in 1..(i - 1) : events[j].op = "os.environ.update"
                /\ <<"env", desc0.desc.env>> \in events[i].environ
                /\ \A p \in events[i].environ :
                    p[1] = "env" => p[2] = desc0.desc.env
                /\ events[i].callable = desc0.desc.driver_callable
                /\ events[i].args = << >>
                /\ events[i].kwargs =
                    {p \in desc0.desc.driver_arguments : p[1] # "runtime"}
                        \cup {<<"runtime", loc.runtime>>}

\* A script was uploaded for a job whose arguments name a runtime of their
\* own, and the driver's environment already has another `env`.
C23_Witness ==
    /\ Cardinality(remote.drivers) = 1
    /\ <<"runtime", "old">> \in desc0.desc.driver_arguments
    /\ \E b \in remote.drivers : \E environ \in Environs :
        /\ \E p \in environ : p[1] = "env" /\ p[2] # desc0.desc.env
        /\ Invocations(ScriptEvents(b.script, environ)) = {2}

----------------------------------------------------------------------------
(* C24 *)

\* The calls run() makes once the job is submitted.
CallsAfterSubmit ==
    {"get_job", "sleep", "log_get_job", "download_log", "delete_cluster"}

\* The job was submitted and no poll has seen it in a terminal state.
JobLeftRunning == Returned("submit_job") /\ lastState \notin TerminalStates

\* C24: after the job is submitted run() only polls, sleeps, fetches the log
\* and deletes the cluster: it never asks for the job to be cancelled.  A
\* run left while the job was not seen to end has invoked delete_cluster
\* once, and the cluster is still there only if that call raised.
C24_NoCancelOnlyTeardown ==
    /\ \A i \in Calls("submit_job") : \A j \in (i + 1)..Len(trace) :
        trace[j].op \in CallsAfterSubmit
    /\ (Finished /\ JobLeftRunning) =>
        /\ Count("delete_cluster") = 1
        /\ cluster # "deleted" =>
            trace[Len(trace)] = [op |-> "delete_cluster", out |-> "raise"]

\* A poll raised while the job was last seen running, and the run ended
\* with the cluster deleted.
C24_Witness ==
    /\ Finished
    /\ lastState = "RUNNING"
    /\ \E i \in Calls("get_job") : trace[i].out = "raise"
    /\ cluster = "deleted"

----------------------------------------------------------------------------
(* C25 *)

\* The positions of the cloud logging handlers among the root's handlers.
GcpHandlers ==
    {i \in 1..Len(root_handlers) : root_handlers[i].kind = "GCPLoggerHandler"}

\* The handler is on the root logger and the hook is installed.
LoggingWired ==
    /\ Cardinality(GcpHandlers) = 1
    /\ excepthook = "_uncaught_exception_handler"
    /\ log_hist.installs = 1

\* What a step leaves of the configuration.
LoggingUntouched ==
    /\ UNCHANGED <<root_handlers, excepthook>>
    /\ log_hist'.installs = log_hist.installs

\* C25: the cloud handler is added to the root logger at most once and the
\* hook installed at most once; IS_LOGGING_SET is true only when both are in
\* place, never goes back to false, and nothing is rewired while it is true;
\* a call whose handler constructor raises leaves IS_LOGGING_SET false and
\* the wiring as it was.
C25_ConfiguredAtMostOnce ==
    /\ [](/\ Cardinality(GcpHandlers) <= 1
          /\ log_hist.installs <= 1
          /\ IS_LOGGING_SET => LoggingWired)
    /\ [][/\ IS_LOGGING_SET => (IS_LOGGING_SET' /\ LoggingUntouched)
          /\ log_hist'.failures > log_hist.failures =>
                (~IS_LOGGING_SET' /\ LoggingUntouched)]_vars

\* A call failed in the constructor, a later call configured logging, and a
\* call after that was skipped with a warning.
C25_Witness ==
    /\ log_hist.failures = 1
    /\ IS_LOGGING_SET
    /\ LoggingWired
    /\ log_hist.warnings = 1
    /\ log_pc = "idle"

====
